---- MODULE Spec2Model ----
(***************************************************************************)
(* A model of check_git_dirs.py: the scan of the git repositories below a  *)
(* root directory, the classification of each from the two outputs of      *)
(* `git status`, the aggregation into counters and lists, and the console  *)
(* report of main().                                                       *)
(*                                                                         *)
(* Text is modelled as a sequence of one-character strings, a path as the  *)
(* sequence of its components below the root, and an optional value as a   *)
(* sequence of length 0 or 1.                                              *)
(***************************************************************************)
EXTENDS Naturals, Sequences, FiniteSets

(***************************************************************************)
(* Bounds of the model.                                                    *)
(***************************************************************************)
MaxRepos == 2

MaxIgnoreLines == 1

(***************************************************************************)
(* Literals of the program.                                                *)
(***************************************************************************)
OnBranch == <<"O", "n", " ", "b", "r", "a", "n", "c", "h", " ">>

AheadMarker == <<"Y", "o", "u", "r", " ", "b", "r", "a", "n", "c", "h", " ",
                 "i", "s", " ", "a", "h", "e", "a", "d">>

INFO == 20

WARNING == 30

Whitespace == {" ", "\n", "\t"}

(***************************************************************************)
(* String functions of Python, computed as Python computes them.           *)
(***************************************************************************)
\* str.splitlines(): the lines of a text without their line ends; a final
\* line end opens no further line, and the empty text has no line at all.
\* (Of the line ends Python knows, the texts here hold only "\n".)
RECURSIVE SplitFrom(_, _, _)
SplitFrom(t, k, cur) ==
    IF k > Len(t) THEN (IF cur = <<>> THEN <<>> ELSE <<cur>>)
    ELSE IF t[k] = "\n" THEN <<cur>> \o SplitFrom(t, k + 1, <<>>)
    ELSE SplitFrom(t, k + 1, Append(cur, t[k]))

SplitLines(t) == SplitFrom(t, 1, <<>>)

\* `pat in t`
Contains(t, pat) ==
    \E k \in 1..(Len(t) + 1) :
        /\ k + Len(pat) - 1 <= Len(t)
        /\ SubSeq(t, k, k + Len(pat) - 1) = pat

\* t.replace(pat, ""): every non-overlapping occurrence, leftmost first.
RECURSIVE Replace(_, _)
Replace(t, pat) ==
    IF Len(t) < Len(pat) THEN t
    ELSE IF SubSeq(t, 1, Len(pat)) = pat
         THEN Replace(SubSeq(t, Len(pat) + 1, Len(t)), pat)
         ELSE <<t[1]>> \o Replace(Tail(t), pat)

\* t.strip()
RECURSIVE LStrip(_)
LStrip(t) == IF t # <<>> /\ t[1] \in Whitespace THEN LStrip(Tail(t)) ELSE t

RECURSIVE RStrip(_)
RStrip(t) ==
    IF t # <<>> /\ t[Len(t)] \in Whitespace
    THEN RStrip(SubSeq(t, 1, Len(t) - 1)) ELSE t

Strip(t) == RStrip(LStrip(t))

\* pathlib's Path.name: the final component of a path.
Name(p) == p[Len(p)]

\* x in xs, for a list xs
InList(x, xs) == \E k \in 1..Len(xs) : xs[k] = x


(***************************************************************************)
(* The environment: what the file system and git can hand to the program.  *)
(***************************************************************************)
A == <<"a">>

B == <<"b">>

X == <<"x">>

\* Directories below the root that can hold a `.git` entry; two of them share
\* their final component.
Paths == {<<A>>, <<B>>, <<X, A>>}

\* What rglob(".git") can yield: the entries in traversal order, each with its
\* parent directory and whether the entry is a directory (a worktree or a
\* submodule has a `.git` file), no entry twice.
RECURSIVE SeqsUpTo(_, _)
SeqsUpTo(S, n) ==
    IF n = 0 THEN {<<>>}
    ELSE LET shorter == SeqsUpTo(S, n - 1)
         IN  shorter \cup {Append(q, x) : q \in shorter, x \in S}

DistinctParents(q) ==
    \A j, k \in 1..Len(q) : j # k => q[j].parent # q[k].parent

Hits == [parent : Paths, is_dir : BOOLEAN]

Trees == {q \in SeqsUpTo(Hits, MaxRepos) : DistinctParents(q)}

\* Raw lines of <root>/.check_ignore as readlines() returns them.
RawLines == { <<"a", "\n">>, <<" ", "b", "\t", "\n">>, <<"\n">> }

IgnoreFiles ==
    {[kind |-> "absent", lines |-> <<>>], [kind |-> "dir", lines |-> <<>>]}
    \cup [kind : {"file"}, lines : SeqsUpTo(RawLines, MaxIgnoreLines)]

\* Outputs of `git status -s`.
NoChanges == <<>>

OneChange == <<" ", "M", " ", "f", "\n">>

\* Outputs of `git status`.
BranchM == OnBranch \o <<"m", "\n">>

BranchMAhead == OnBranch \o <<"m", "\n">> \o AheadMarker \o <<"\n">>

Detached == <<"H", "E", "A", "D", " ", "d", "e", "t", "a", "c", "h", "e", "d", "\n">>

\* The two outputs one repository can give: with the default configuration
\* every long report goes with every short listing; with status.short set,
\* `git status` prints the short listing itself (nothing for a clean tree).
GitStates ==
    [short : {NoChanges, OneChange}, full : {BranchM, BranchMAhead, Detached}]
    \cup {[short |-> NoChanges, full |-> NoChanges],
          [short |-> OneChange, full |-> OneChange]}


(***************************************************************************)
(* The functions of the program.  A call that can raise returns            *)
(* [exc, val]: exc holds the exception raised (or nothing), val the value  *)
(* returned (or nothing).                                                  *)
(***************************************************************************)
Return(v) == [exc |-> <<>>, val |-> <<v>>]

Raise(e) == [exc |-> <<e>>, val |-> <<>>]

\* The message built from the directory, the status mark, and the branch
\* labels appended to it.
Message(d, mark) == [dir |-> d, mark |-> mark, suffix |-> <<>>]

\* Variant: the label taken as the whole first line, prefix kept.
add_branch_label_whole_line(record_branches, git_status, output_message) ==
    IF record_branches
    THEN IF SplitLines(git_status) = <<>>
         THEN Raise("IndexError")
         ELSE Return([output_message EXCEPT
                          !.suffix = Append(@, SplitLines(git_status)[1])])
    ELSE Return(output_message)

add_branch_label(record_branches, git_status, output_message) ==
    IF record_branches
    THEN IF SplitLines(git_status) = <<>>
         THEN Raise("IndexError")
         ELSE LET branch_name == Replace(SplitLines(git_status)[1], OnBranch)
              IN  Return([output_message EXCEPT
                              !.suffix = Append(@, branch_name)])
    ELSE Return(output_message)

\* Variant: the lines kept as read, line ends and blanks included.
read_check_ignore_unstripped(file) ==
    IF file.kind = "file" THEN file.lines ELSE <<>>

read_check_ignore(file) ==
    IF file.kind = "file"
    THEN [k \in 1..Len(file.lines) |-> Strip(file.lines[k])]
    ELSE <<>>

find_git_dirs(tree) ==
    LET IsDir(h) == h.is_dir
        kept == SelectSeq(tree, IsDir)
    IN  [k \in 1..Len(kept) |-> kept[k].parent]

filter_ignored_dirs(git_dirs, ignore_names) ==
    LET Ignored(x) == InList(Name(x), ignore_names)
        Kept(x) == ~InList(Name(x), ignore_names)
    IN  <<SelectSeq(git_dirs, Kept), SelectSeq(git_dirs, Ignored)>>

\* process_git_dir after its two queries: rev_parse holds the lines of the
\* short listing, git_status the text of the long report.
WithLabel(labelled, is_okay, requires_push) ==
    IF labelled.exc # <<>> THEN Raise(labelled.exc[1])
    ELSE Return([message |-> labelled.val[1], is_okay |-> is_okay,
                 requires_push |-> requires_push])

\* Variant: the ahead marker tested before the short listing.
process_git_dir_ahead_first(git_dir, record_branches, rev_parse, git_status) ==
    IF Contains(git_status, AheadMarker)
    THEN WithLabel(add_branch_label(record_branches, git_status,
                       Message(git_dir, "Requires push")), FALSE, TRUE)
    ELSE IF Len(rev_parse) = 0
    THEN WithLabel(add_branch_label(record_branches, git_status,
                       Message(git_dir, "OK")), TRUE, FALSE)
    ELSE WithLabel(add_branch_label(record_branches, git_status,
                       Message(git_dir, "Unstaged changes")), FALSE, FALSE)

process_git_dir(git_dir, record_branches, rev_parse, git_status) ==
    IF Len(rev_parse) = 0
    THEN IF Contains(git_status, AheadMarker)
         THEN WithLabel(add_branch_label(record_branches, git_status,
                            Message(git_dir, "Requires push")), FALSE, TRUE)
         ELSE WithLabel(add_branch_label(record_branches, git_status,
                            Message(git_dir, "OK")), TRUE, FALSE)
    ELSE WithLabel(add_branch_label(record_branches, git_status,
                       Message(git_dir, "Unstaged changes")), FALSE, FALSE)

\* The loop body of scan_all_git_repos after process_git_dir has returned:
\* t holds the three counters and the two lists.
\* Variant: the second test written `if` instead of `elif`.
Aggregate_no_elif(t, git_dir, okay, push) ==
    LET t1 == IF push
              THEN [t EXCEPT !.total_push = @ + 1, !.push_list = Append(@, git_dir)]
              ELSE t
    IN  IF okay
        THEN [t1 EXCEPT !.total_okay = @ + 1]
        ELSE [t1 EXCEPT !.total_unstaged = @ + 1,
                        !.unstaged_list = Append(@, git_dir)]

\* Variant: push_list.append left out.
Aggregate_unlisted(t, git_dir, okay, push) ==
    IF push
    THEN [t EXCEPT !.total_push = @ + 1]
    ELSE IF okay
    THEN [t EXCEPT !.total_okay = @ + 1]
    ELSE [t EXCEPT !.total_unstaged = @ + 1,
                   !.unstaged_list = Append(@, git_dir)]

Aggregate(t, git_dir, okay, push) ==
    IF push
    THEN [t EXCEPT !.total_push = @ + 1, !.push_list = Append(@, git_dir)]
    ELSE IF okay
    THEN [t EXCEPT !.total_okay = @ + 1]
    ELSE [t EXCEPT !.total_unstaged = @ + 1,
                   !.unstaged_list = Append(@, git_dir)]

\* `for git_dir in git_dirs`: the position after the one just processed.
\* Variant: a loop that steps over every other directory.
NextIndex_skipping(k) == k + 2

NextIndex(k) == k + 1

\* `if not directory.exists()`
\* Variant: the existence check left out.
DirectoryMissing_unchecked(exists) == FALSE

DirectoryMissing(exists) == ~exists

\* Variant: a handler that notes the exception and goes on at `resume`.
Caught(exc, resume) == [pc |-> resume, error |-> <<exc>>]

\* An exception raised where the program would otherwise go on at `resume`:
\* no handler exists, so the program ends there with the exception.
Uncaught(exc, resume) == [pc |-> "raised", error |-> <<exc>>]

\* A line handed to the logger.
Line(kind, n, dirs, msg) == [kind |-> kind, n |-> n, dirs |-> dirs, msg |-> msg]

\* logging: a record below the logger's level is dropped.
Emit(out, threshold, lvl, line) ==
    IF lvl >= threshold THEN Append(out, line) ELSE out


\* A run of logging calls, in order: each is <<level, line>>.
RECURSIVE EmitAll(_, _, _)
EmitAll(out, threshold, logged) ==
    IF logged = <<>> THEN out
    ELSE EmitAll(Emit(out, threshold, logged[1][1], logged[1][2]),
                 threshold, Tail(logged))

\* The logging calls of main() after the scan.
Report(total_unstaged, total_push, total_okay, unstaged_list, push_list) ==
    LET grand_total == total_unstaged + total_push + total_okay
    IN  <<<<WARNING, Line("Checks completed", 0, <<>>, <<>>)>>>>
        \o (IF total_unstaged # 0
            THEN <<<<WARNING, Line("Unstaged changes", total_unstaged, <<>>, <<>>)>>,
                   <<INFO, Line("unstaged dirs", 0, unstaged_list, <<>>)>>>>
            ELSE <<>>)
        \o (IF total_push # 0
            THEN <<<<WARNING, Line("Requires push", total_push, <<>>, <<>>)>>,
                   <<INFO, Line("push dirs", 0, push_list, <<>>)>>>>
            ELSE <<>>)
        \o (IF grand_total = total_okay
            THEN <<<<WARNING, Line("All repositories okay", total_okay, <<>>, <<>>)>>>>
            ELSE <<<<WARNING, Line("okay of total", total_okay, <<>>, <<>>)>>>>)

(***************************************************************************)
(* The state.                                                              *)
(***************************************************************************)
VARIABLES
    rootExists,       \* the root directory exists (and is a directory)
    tree,             \* what rglob(".git") yields below the root
    ignoreFile,       \* <root>/.check_ignore
    entry,            \* "main": the command line; "scan": scan_all_git_repos called directly
    verbose,          \* args.verbose
    record_branches,  \* args.branch, the record_branches parameter
    pc,               \* where the program is
    level,            \* the root logger's level
    git_dirs, ignore_dirs, ignore_names,
    i,                \* position of the loop in git_dirs
    rev_parse, git_status,
    output_message, is_okay, requires_push,
    total_okay, total_push, total_unstaged, unstaged_list, push_list,
    result,           \* what scan_all_git_repos returned, if it has
    error,            \* the exception that ended the program, if one has
    printed,          \* the lines on the console
    calls,            \* history: file-system walks, reads and git queries issued
    counted           \* history: each directory processed, with the number of
                      \* lines of its short listing, whether its long report
                      \* held the ahead marker, and what its turn added to
                      \* each of the three counters

world == <<rootExists, tree, ignoreFile, entry, verbose, record_branches>>

locals == <<rev_parse, git_status, output_message, is_okay, requires_push>>

totals == <<total_okay, total_push, total_unstaged, unstaged_list, push_list>>

found == <<git_dirs, ignore_dirs, ignore_names>>

vars == <<world, pc, level, found, i, locals, totals, result, error, printed,
          calls, counted>>

Call(op, dir) == [op |-> op, dir |-> dir]

Init ==
    /\ rootExists \in BOOLEAN
    /\ tree \in Trees
    /\ ignoreFile \in IgnoreFiles
    /\ entry \in {"main", "scan"}
    /\ verbose \in (IF entry = "main" THEN BOOLEAN ELSE {FALSE})
    /\ record_branches \in BOOLEAN
    /\ pc = entry
    /\ level = WARNING
    /\ git_dirs = <<>> /\ ignore_dirs = <<>> /\ ignore_names = <<>>
    /\ i = 0
    /\ rev_parse = <<>> /\ git_status = <<>>
    /\ output_message = <<>> /\ is_okay = FALSE /\ requires_push = FALSE
    /\ total_okay = 0 /\ total_push = 0 /\ total_unstaged = 0
    /\ unstaged_list = <<>> /\ push_list = <<>>
    /\ result = <<>>
    /\ error = <<>>
    /\ printed = <<>>
    /\ calls = <<>>
    /\ counted = <<>>

(***************************************************************************)
(* main() up to the call of scan_all_git_repos: dir_path refuses a root    *)
(* that is no directory, and the verbosity flag sets the logger's level.   *)
(***************************************************************************)
MainStart ==
    /\ pc = "main"
    /\ IF rootExists
       THEN /\ level' = (IF verbose THEN INFO ELSE WARNING)
            /\ pc' = "scan"
            /\ error' = error
       ELSE /\ pc' = Uncaught("NotADirectoryError", "done").pc
            /\ error' = Uncaught("NotADirectoryError", "done").error
            /\ level' = level
    /\ UNCHANGED <<world, found, i, locals, totals, result, printed, calls, counted>>

(***************************************************************************)
(* scan_all_git_repos up to its loop: the existence check, the discovery,  *)
(* the ignore list, the two counts logged, the counters set to zero.       *)
(***************************************************************************)
ScanStart ==
    /\ pc = "scan"
    /\ IF DirectoryMissing(rootExists)
       THEN /\ pc' = Uncaught("IOError", "done").pc
            /\ error' = Uncaught("IOError", "done").error
            /\ UNCHANGED <<found, i, totals, printed, calls>>
       ELSE LET names == read_check_ignore(ignoreFile)
                split == filter_ignored_dirs(find_git_dirs(tree), names)
            IN  /\ ignore_names' = names
                /\ git_dirs' = split[1]
                /\ ignore_dirs' = split[2]
                /\ calls' = calls \o <<Call("rglob", <<>>),
                                       Call("read_check_ignore", <<>>)>>
                /\ printed' = EmitAll(printed, level,
                       <<<<INFO, Line("Found", Len(split[1]), <<>>, <<>>)>>>>
                       \o (IF split[2] # <<>>
                           THEN <<<<INFO, Line("Ignoring", Len(split[2]), <<>>, <<>>)>>>>
                           ELSE <<>>))
                /\ total_push' = 0 /\ total_okay' = 0 /\ total_unstaged' = 0
                /\ unstaged_list' = <<>> /\ push_list' = <<>>
                /\ i' = 1
                /\ pc' = "loop"
                /\ error' = error
    /\ UNCHANGED <<world, level, locals, result, counted>>


(***************************************************************************)
(* process_git_dir, first query: check_output(["git", "status", "-s"]).    *)
(* check_output raises when git cannot be run or exits non-zero; nothing   *)
(* in the program catches it.                                              *)
(***************************************************************************)
QueryShort ==
    /\ pc = "loop"
    /\ i <= Len(git_dirs)
    /\ calls' = Append(calls, Call("git status -s", git_dirs[i]))
    /\ \/ \E g \in GitStates :
            /\ rev_parse' = SplitLines(g.short)
            /\ pc' = "status"
            /\ error' = error
       \/ /\ pc' = Uncaught("CalledProcessError", "status").pc
          /\ error' = Uncaught("CalledProcessError", "status").error
          /\ rev_parse' = rev_parse
    /\ UNCHANGED <<world, level, found, i, git_status, output_message, is_okay,
                   requires_push, totals, result, printed, counted>>

(***************************************************************************)
(* process_git_dir, second query: check_output(["git", "status"]).         *)
(***************************************************************************)
QueryFull ==
    /\ pc = "status"
    /\ calls' = Append(calls, Call("git status", git_dirs[i]))
    /\ \/ \E g \in GitStates :
            /\ SplitLines(g.short) = rev_parse
            /\ git_status' = g.full
            /\ pc' = "classify"
            /\ error' = error
       \/ /\ pc' = Uncaught("CalledProcessError", "classify").pc
          /\ error' = Uncaught("CalledProcessError", "classify").error
          /\ git_status' = git_status
    /\ UNCHANGED <<world, level, found, i, rev_parse, output_message, is_okay,
                   requires_push, totals, result, printed, counted>>

(***************************************************************************)
(* The rest of process_git_dir and of the loop body: the classification,   *)
(* the branch label, the counter and the list, the line logged.            *)
(***************************************************************************)
Classify ==
    /\ pc = "classify"
    /\ LET r == process_git_dir(git_dirs[i], record_branches, rev_parse, git_status)
       IN  IF r.exc # <<>>
           THEN /\ pc' = Uncaught(r.exc[1], "loop").pc
                /\ error' = Uncaught(r.exc[1], "loop").error
                /\ UNCHANGED <<i, output_message, is_okay, requires_push, totals,
                               printed, counted>>
           ELSE LET v == r.val[1]
                    before == [total_push |-> total_push, total_okay |-> total_okay,
                               total_unstaged |-> total_unstaged,
                               push_list |-> push_list,
                               unstaged_list |-> unstaged_list]
                    after == Aggregate(before, git_dirs[i], v.is_okay, v.requires_push)
                IN  /\ output_message' = <<v.message>>
                    /\ is_okay' = v.is_okay
                    /\ requires_push' = v.requires_push
                    /\ total_push' = after.total_push
                    /\ total_okay' = after.total_okay
                    /\ total_unstaged' = after.total_unstaged
                    /\ push_list' = after.push_list
                    /\ unstaged_list' = after.unstaged_list
                    /\ counted' = Append(counted,
                           [dir |-> git_dirs[i],
                            lines |-> Len(rev_parse),
                            ahead |-> Contains(git_status, AheadMarker),
                            okay |-> after.total_okay - before.total_okay,
                            push |-> after.total_push - before.total_push,
                            unstaged |-> after.total_unstaged - before.total_unstaged])
                    /\ printed' = Emit(printed, level, INFO,
                                       Line("repository", 0, <<git_dirs[i]>>, <<v.message>>))
                    /\ i' = NextIndex(i)
                    /\ pc' = "loop"
                    /\ error' = error
    /\ UNCHANGED <<world, level, found, rev_parse, git_status, result, calls>>

(***************************************************************************)
(* The return of scan_all_git_repos, once the loop has run out.            *)
(***************************************************************************)
ScanReturn ==
    /\ pc = "loop"
    /\ i > Len(git_dirs)
    /\ result' = <<[total_unstaged |-> total_unstaged, total_push |-> total_push,
                    total_okay |-> total_okay, unstaged_list |-> unstaged_list,
                    push_list |-> push_list]>>
    /\ pc' = (IF entry = "main" THEN "report" ELSE "done")
    /\ UNCHANGED <<world, level, found, i, locals, totals, error, printed, calls,
                   counted>>

(***************************************************************************)
(* main() after the scan: the summary.                                     *)
(***************************************************************************)
MainReport ==
    /\ pc = "report"
    /\ printed' = EmitAll(printed, level,
                      Report(result[1].total_unstaged, result[1].total_push,
                             result[1].total_okay, result[1].unstaged_list,
                             result[1].push_list))
    /\ pc' = "done"
    /\ UNCHANGED <<world, level, found, i, locals, totals, result, error, calls,
                   counted>>

Next ==
    \/ MainStart
    \/ ScanStart
    \/ QueryShort
    \/ QueryFull
    \/ Classify
    \/ ScanReturn
    \/ MainReport

Spec == Init /\ [][Next]_vars


(***************************************************************************)
(* What the properties speak of, stated from the environment and the       *)
(* histories alone.                                                        *)
(***************************************************************************)
\* The repository directories below the root: the parents of `.git` directories.
Discovered == {tree[k].parent : k \in {j \in 1..Len(tree) : tree[j].is_dir}}

\* The ignore list: the trimmed lines of <root>/.check_ignore.
IgnoreSet ==
    IF ignoreFile.kind = "file"
    THEN {Strip(ignoreFile.lines[k]) : k \in 1..Len(ignoreFile.lines)}
    ELSE {}

NonIgnored == {d \in Discovered : Name(d) \notin IgnoreSet}

Classification(lines, ahead) ==
    IF lines >= 1 THEN "HasUnstagedChanges"
    ELSE IF ahead THEN "NeedsPush"
    ELSE "Clean"

ClassOf(c) == Classification(c.lines, c.ahead)

Entries(d) == {k \in 1..Len(counted) : counted[k].dir = d}

IsGitCall(c) == c.op \in {"git status -s", "git status"}

GitCalls == SelectSeq(calls, IsGitCall)

Returned == result # <<>>

\* The locals of the loop hold the values of the repository processed last.
LastProcessed == pc \in {"loop", "report", "done"} /\ counted # <<>>

Last == counted[Len(counted)]

\* C1: when scan_all_git_repos returns, the three counters sum to the number
\* of discovered repository directories whose name is not in the ignore
\* list, and each of those was counted once, in exactly one counter.
C1_CountersSumToNonIgnored ==
    Returned =>
        /\ result[1].total_okay + result[1].total_push + result[1].total_unstaged
               = Cardinality(NonIgnored)
        /\ \A d \in NonIgnored :
               /\ Cardinality(Entries(d)) = 1
               /\ \A k \in Entries(d) :
                      counted[k].okay + counted[k].push + counted[k].unstaged = 1
        /\ \A k \in 1..Len(counted) : counted[k].dir \in NonIgnored

C1_Witness ==
    /\ Returned
    /\ ignore_dirs # <<>>
    /\ Cardinality(NonIgnored) >= 1
    /\ result[1].total_okay + result[1].total_push + result[1].total_unstaged = 1

\* C2: the classification is a function of the two status texts (unstaged
\* changes first, then the ahead marker, else clean), and the counter
\* incremented for a repository is the one of its classification.
C2_ClassificationDecidesCounter ==
    /\ \A k \in 1..Len(counted) :
           /\ counted[k].unstaged = (IF ClassOf(counted[k]) = "HasUnstagedChanges" THEN 1 ELSE 0)
           /\ counted[k].push = (IF ClassOf(counted[k]) = "NeedsPush" THEN 1 ELSE 0)
           /\ counted[k].okay = (IF ClassOf(counted[k]) = "Clean" THEN 1 ELSE 0)
    /\ LastProcessed =>
           /\ Last.lines = Len(rev_parse)
           /\ Last.ahead = Contains(git_status, AheadMarker)
           /\ requires_push = (ClassOf(Last) = "NeedsPush")
           /\ is_okay = (ClassOf(Last) = "Clean")
           /\ output_message[1].mark =
                  (CASE ClassOf(Last) = "HasUnstagedChanges" -> "Unstaged changes"
                     [] ClassOf(Last) = "NeedsPush" -> "Requires push"
                     [] ClassOf(Last) = "Clean" -> "OK")

C2_Witness ==
    /\ LastProcessed
    /\ Len(rev_parse) >= 1
    /\ Contains(git_status, AheadMarker)
    /\ Last.unstaged = 1
    /\ total_push >= 1

\* C3: a discovered directory whose name is in the ignore list is never
\* queried and never reaches a counter or a list; when the scan returns,
\* every directory whose name is not in the list has been queried.
C3_IgnoredNeverQueried ==
    /\ \A k \in 1..Len(GitCalls) : Name(GitCalls[k].dir) \notin IgnoreSet
    /\ \A k \in 1..Len(counted) : Name(counted[k].dir) \notin IgnoreSet
    /\ \A k \in 1..Len(push_list) : Name(push_list[k]) \notin IgnoreSet
    /\ \A k \in 1..Len(unstaged_list) : Name(unstaged_list[k]) \notin IgnoreSet
    /\ total_okay + total_push + total_unstaged <= Cardinality(NonIgnored)
    /\ Returned =>
           \A d \in NonIgnored : \E k \in 1..Len(GitCalls) : GitCalls[k].dir = d

C3_Witness ==
    /\ Returned
    /\ \E d \in Discovered : Name(d) \in IgnoreSet /\ Name(d) = B
    /\ \E k \in 1..Len(GitCalls) : Name(GitCalls[k].dir) = A

\* C4: with a root that does not exist, the scan ends with the error before
\* any walk of the tree, read of the ignore file or git query, and returns
\* nothing.
C4_MissingRootFailsFirst ==
    ~rootExists =>
        /\ calls = <<>>
        /\ ~Returned
        /\ pc \in {"main", "scan", "raised"}
        /\ (pc = "raised") = (error # <<>>)
        /\ entry = "scan" /\ pc = "raised" => error = <<"IOError">>
        /\ git_dirs = <<>> /\ ignore_names = <<>> /\ printed = <<>>

C4_Witness ==
    /\ ~rootExists
    /\ entry = "scan"
    /\ pc = "raised"
    /\ error = <<"IOError">>
    /\ tree # <<>>


\* The first line of a text: what precedes its first line end.
RECURSIVE UpToLineEnd(_)
UpToLineEnd(t) ==
    IF t = <<>> \/ t[1] = "\n" THEN <<>> ELSE <<t[1]>> \o UpToLineEnd(Tail(t))

HasLines(t) == t # <<>>

StartsWith(t, prefix) ==
    Len(t) >= Len(prefix) /\ SubSeq(t, 1, Len(prefix)) = prefix

After(t, prefix) == SubSeq(t, Len(prefix) + 1, Len(t))

\* The long report is as git words it on a branch: its first line starts
\* with "On branch ".
WellFormed(t) == HasLines(t) /\ StartsWith(UpToLineEnd(t), OnBranch)

MarkOf(class) ==
    CASE class = "HasUnstagedChanges" -> "Unstaged changes"
      [] class = "NeedsPush" -> "Requires push"
      [] class = "Clean" -> "OK"

\* C5: the message of a repository carries a branch label if and only if
\* branch recording is enabled; the label of a report whose first line reads
\* "On branch <name>" is <name>; with branch recording disabled the message
\* is the unlabelled one.
C5_BranchLabelIffRecording ==
    LastProcessed =>
        /\ output_message[1].dir = Last.dir
        /\ output_message[1].mark = MarkOf(ClassOf(Last))
        /\ (output_message[1].suffix # <<>>) = record_branches
        /\ ~record_branches =>
               output_message[1] = Message(Last.dir, MarkOf(ClassOf(Last)))
        /\ record_branches /\ WellFormed(git_status) =>
               output_message[1].suffix = <<After(UpToLineEnd(git_status), OnBranch)>>

C5_Witness ==
    /\ LastProcessed
    /\ record_branches
    /\ WellFormed(git_status)
    /\ output_message[1].suffix = << <<"m">> >>
    /\ total_okay >= 1 /\ total_push >= 1

\* C6: with branch recording enabled, a long report that is malformed (no
\* line at all, or a first line that does not start with "On branch ") does
\* not end the scan: the repository is classified and counted, and its
\* message carries no branch label.
C6_MalformedReportDegrades ==
    /\ error # <<"IndexError">>
    /\ LastProcessed /\ record_branches /\ ~WellFormed(git_status) =>
           output_message[1].suffix = <<>>

\* C7: from the command line, with the verbosity flag off the line of a
\* repository is printed exactly when it has unstaged changes, and the
\* summary is printed; with the flag on the line of every repository scanned
\* is printed.
RepositoryLinePrinted(d) ==
    \E k \in 1..Len(printed) :
        printed[k].kind = "repository" /\ printed[k].dirs = <<d>>

SummaryPrinted ==
    /\ \E k \in 1..Len(printed) : printed[k].kind = "Checks completed"
    /\ \E k \in 1..Len(printed) :
           printed[k].kind \in {"All repositories okay", "okay of total"}

C7_QuietPrintsUnstagedOnly ==
    entry = "main" /\ pc = "done" =>
        /\ SummaryPrinted
        /\ ~verbose =>
               \A k \in 1..Len(counted) :
                   RepositoryLinePrinted(counted[k].dir)
                       = (ClassOf(counted[k]) = "HasUnstagedChanges")
        /\ verbose =>
               \A k \in 1..Len(counted) : RepositoryLinePrinted(counted[k].dir)

\* C8: push_list holds the repositories classified NeedsPush and
\* unstaged_list those classified HasUnstagedChanges, each once and in the
\* order processed; no clean repository is in either, none is in both, the
\* lengths are the two counters, and the scan returns these lists.
IsNeedsPush(c) == ClassOf(c) = "NeedsPush"

IsUnstaged(c) == ClassOf(c) = "HasUnstagedChanges"

Dirs(q) == [k \in 1..Len(q) |-> q[k].dir]

C8_ListsHoldClassified ==
    /\ push_list = Dirs(SelectSeq(counted, IsNeedsPush))
    /\ unstaged_list = Dirs(SelectSeq(counted, IsUnstaged))
    /\ \A j, k \in 1..Len(counted) : j # k => counted[j].dir # counted[k].dir
    /\ \A j \in 1..Len(push_list) : \A k \in 1..Len(unstaged_list) :
           push_list[j] # unstaged_list[k]
    /\ Len(push_list) = total_push
    /\ Len(unstaged_list) = total_unstaged
    /\ Returned =>
           /\ result[1].push_list = Dirs(SelectSeq(counted, IsNeedsPush))
           /\ result[1].unstaged_list = Dirs(SelectSeq(counted, IsUnstaged))
           /\ Len(result[1].push_list) = result[1].total_push
           /\ Len(result[1].unstaged_list) = result[1].total_unstaged
           /\ Len(counted) = Len(git_dirs)

C8_Witness ==
    /\ Returned
    /\ Len(result[1].push_list) = 1
    /\ Len(result[1].unstaged_list) = 1
    /\ counted[1].push = 1

\* C9: the scan is sequential: the k-th repository of the loop is queried
\* twice, short form then long form, then counted, before the next one is
\* queried; when the scan returns every one has been queried exactly twice.
C9_Sequential ==
    /\ \A k \in 1..Len(GitCalls) :
           /\ (k + 1) \div 2 <= Len(git_dirs)
           /\ GitCalls[k].dir = git_dirs[(k + 1) \div 2]
           /\ GitCalls[k].op = (IF k % 2 = 1 THEN "git status -s" ELSE "git status")
    /\ \A k \in 1..Len(counted) : counted[k].dir = git_dirs[k]
    /\ Len(counted) <= Len(GitCalls) \div 2
    /\ Len(GitCalls) >= 1 => Len(counted) >= (Len(GitCalls) - 1) \div 2
    /\ Returned =>
           /\ Len(GitCalls) = 2 * Len(git_dirs)
           /\ Len(counted) = Len(git_dirs)

C9_Witness ==
    /\ Len(GitCalls) = 3
    /\ Len(counted) = 1
    /\ pc = "status"

\* C10: a failed git query ends the scan at that repository: the program
\* stops with the error, no later repository is queried, the failing one
\* reaches no counter or list, and nothing is returned.
C10_QueryFailureAborts ==
    error = <<"CalledProcessError">> =>
        /\ pc = "raised"
        /\ ~ENABLED Next
        /\ ~Returned
        /\ Len(GitCalls) >= 1
        /\ GitCalls[Len(GitCalls)].dir = git_dirs[i]
        /\ \A k \in 1..Len(GitCalls) :
               \E j \in 1..i : GitCalls[k].dir = git_dirs[j]
        /\ Len(counted) = i - 1
        /\ \A k \in 1..Len(counted) : counted[k].dir # git_dirs[i]
        /\ ~InList(git_dirs[i], push_list) /\ ~InList(git_dirs[i], unstaged_list)
        /\ total_okay + total_push + total_unstaged = i - 1

C10_Witness ==
    /\ error = <<"CalledProcessError">>
    /\ i = 1
    /\ Len(git_dirs) >= 2
    /\ Len(GitCalls) = 2

====
